---------------------------- MODULE Spec2Model ----------------------------
(***************************************************************************)
(* Model of monaco's template engine (src/monaco/parser.py): the Token     *)
(* class, the regex lexer of Parser (get_token / tokenize) and the         *)
(* recursive evaluator Parser.parse.                                       *)
(*                                                                         *)
(* Text is modelled as sequences of one-character strings, so that lexing, *)
(* int(), str() and split() are computed character by character.           *)
(* Positions are Python's 0-based indices.                                 *)
(***************************************************************************)
EXTENDS Integers, Sequences, FiniteSets, TLC

(***************************************************************************)
(* Bounds of the model.                                                    *)
(***************************************************************************)
\* longest buffer of the literal-text family
MaxLit == 4
\* largest loop bound written in a `..for::` range
MaxN == 11
\* largest integer literal written as a bracketed index
MaxIdx == 4
\* longest run of literal tokens put before a reference
MaxPrefix == 3

(***************************************************************************)
(* Characters and character classes of the lexer's regular expressions.    *)
(***************************************************************************)
Digits == <<"0", "1", "2", "3", "4", "5", "6", "7", "8", "9">>

DigitChars == {Digits[i] : i \in 1..10}

LetterChars ==
    {"a","b","c","d","e","f","g","h","i","j","k","l","m","n","o","p","q","r",
     "s","t","u","v","w","x","y","z",
     "A","B","C","D","E","F","G","H","I","J","K","L","M","N","O","P","Q","R",
     "S","T","U","V","W","X","Y","Z"}

\* [\r\n]
NewlineChars == {"\n", "\r"}

\* \s
SpaceChars == {" ", "\t", "\n", "\r", "\f"}

\* \w and [a-zA-Z_0-9]
WordChars == LetterChars \cup DigitChars \cup {"_"}

\* `.` of a regular expression compiled without DOTALL
Dot(c) == c # "\n"

\* buf[i] for 0 <= i < len(buf)
Ch(buf, i) == buf[i + 1]

\* end (exclusive) of the longest run of characters of S that starts at p
RECURSIVE RunEnd(_, _, _)
RunEnd(buf, p, S) ==
    IF p < Len(buf) /\ Ch(buf, p) \in S THEN RunEnd(buf, p + 1, S) ELSE p

\* the literal text lit stands at offset p of buf
LitAt(buf, p, lit) ==
    /\ p + Len(lit) <= Len(buf)
    /\ \A i \in 1..Len(lit) : buf[p + i] = lit[i]

\* one of several literal texts stands at offset p; the end of the first that does
AltEnd(buf, p, lits) ==
    IF \E i \in 1..Len(lits) : LitAt(buf, p, lits[i])
    THEN p + Len(lits[CHOOSE i \in 1..Len(lits) : LitAt(buf, p, lits[i])])
    ELSE -1

\* X+ : the end of the match, or -1
PlusEnd(buf, p, S) == IF RunEnd(buf, p, S) > p THEN RunEnd(buf, p, S) ELSE -1

\* `..` followed by the literal text rest
DirEnd(buf, p, rest) ==
    IF /\ p + 2 + Len(rest) <= Len(buf)
       /\ Dot(Ch(buf, p)) /\ Dot(Ch(buf, p + 1))
       /\ LitAt(buf, p + 2, rest)
    THEN p + 2 + Len(rest) ELSE -1

\* ..\w+:: (the run of \w is maximal: `:` is no word character)
VarEnd(buf, p) ==
    IF /\ p + 2 <= Len(buf)
       /\ Dot(Ch(buf, p)) /\ Dot(Ch(buf, p + 1))
       /\ RunEnd(buf, p + 2, WordChars) > p + 2
       /\ LitAt(buf, RunEnd(buf, p + 2, WordChars), <<":", ":">>)
    THEN RunEnd(buf, p + 2, WordChars) + 2 ELSE -1

\* the texts of the reserved directives and of the iteration marker
S_define == <<".", ".", "d", "e", "f", "i", "n", "e", ":", ":">>
S_for == <<".", ".", "f", "o", "r", ":", ":">>
S_undef == <<".", ".", "u", "n", "d", "e", "f", ":", ":">>
S_if == <<".", ".", "i", "f", ":", ":">>
S_ifnot == <<".", ".", "i", "f", "n", "o", "t", ":", ":">>
S_else == <<".", ".", "e", "l", "s", "e", ":", ":">>
S_end == <<".", ".", "e", "n", "d", ":", ":">>
S_it == <<".", ".", "i", "t", ":", ":">>

\* s without its first two characters
Tail2(s) == SubSeq(s, 3, Len(s))

\* the elements of a sequence
Range(s) == {s[i] : i \in 1..Len(s)}

(***************************************************************************)
(* The rules of Parser.__init__, in order, and the regular expression      *)
(* built from them: alternative i is tried before alternative i + 1.       *)
(***************************************************************************)
RuleTypes ==
    <<"NEWLINE", "SPACE", "COMMENT", "NUMBER", "TRUE", "FALSE", "EQUAL",
      "PLUS", "MINUS", "MULT", "LP", "RP", "LB", "RB", "DEFINE", "FOR",
      "UNDEF", "IF", "IFNOT", "ELSE", "END", "VAR", "IDENTIFIER">>

NumRules == Len(RuleTypes)

\* the end of rule i's match at offset p of buf, or -1 when it does not match
RuleEnd(i, buf, p) ==
    CASE i = 1 -> PlusEnd(buf, p, NewlineChars)
      [] i = 2 -> PlusEnd(buf, p, SpaceChars)
      [] i = 3 -> PlusEnd(buf, p, {"#"})
      [] i = 4 -> PlusEnd(buf, p, DigitChars)
      [] i = 5 -> AltEnd(buf, p, << <<"T","r","u","e">>, <<"t","r","u","e">> >>)
      [] i = 6 -> AltEnd(buf, p, << <<"F","a","l","s","e">>, <<"f","a","l","s","e">> >>)
      [] i = 7 -> AltEnd(buf, p, << <<"=">> >>)
      [] i = 8 -> AltEnd(buf, p, << <<"+">> >>)
      [] i = 9 -> AltEnd(buf, p, << <<"-">> >>)
      [] i = 10 -> AltEnd(buf, p, << <<"*">> >>)
      [] i = 11 -> AltEnd(buf, p, << <<"(">> >>)
      [] i = 12 -> AltEnd(buf, p, << <<")">> >>)
      [] i = 13 -> AltEnd(buf, p, << <<"[">> >>)
      [] i = 14 -> AltEnd(buf, p, << <<"]">> >>)
      [] i = 15 -> DirEnd(buf, p, Tail2(S_define))
      [] i = 16 -> DirEnd(buf, p, Tail2(S_for))
      [] i = 17 -> DirEnd(buf, p, Tail2(S_undef))
      [] i = 18 -> DirEnd(buf, p, Tail2(S_if))
      [] i = 19 -> DirEnd(buf, p, Tail2(S_ifnot))
      [] i = 20 -> DirEnd(buf, p, Tail2(S_else))
      [] i = 21 -> DirEnd(buf, p, Tail2(S_end))
      [] i = 22 -> VarEnd(buf, p)
      [] OTHER -> PlusEnd(buf, p, WordChars)

\* self.regex.match(buf, p): some rule matches at offset p
Matches(buf, p) == \E i \in 1..NumRules : RuleEnd(i, buf, p) >= 0

\* m.lastgroup: the first alternative that matches
MatchRule(buf, p) ==
    CHOOSE i \in 1..NumRules :
        /\ RuleEnd(i, buf, p) >= 0
        /\ \A j \in 1..(i - 1) : RuleEnd(j, buf, p) < 0

\* Token(type, val)
Token(type, val) == [type |-> type, val |-> val]

\* the token of rule i matched at offset p
RuleToken(i, buf, p) == Token(RuleTypes[i], SubSeq(buf, p + 1, RuleEnd(i, buf, p)))

\* the token get_token returns at offset p, and m.end()
MatchToken(buf, p) == RuleToken(MatchRule(buf, p), buf, p)

\* m.end() one past the end of the match
MatchEnd_gap(buf, p) == RuleEnd(MatchRule(buf, p), buf, p) + 1

MatchEnd(buf, p) == RuleEnd(MatchRule(buf, p), buf, p)

\* Parser.tokenize as a function of the buffer: the tokens, or a ParserError
RECURSIVE TokenizeFrom(_, _, _)
TokenizeFrom(buf, p, acc) ==
    IF p >= Len(buf) THEN [err |-> "none", tokens |-> acc]
    ELSE IF ~Matches(buf, p) THEN [err |-> "ParserError", tokens |-> acc]
    ELSE TokenizeFrom(buf, MatchEnd(buf, p), Append(acc, MatchToken(buf, p)))

Tokenize(buf) == TokenizeFrom(buf, 0, <<>>)

(***************************************************************************)
(* Python values held by the environment: int, bool, str and list of int.  *)
(* Every value carries all four fields, so that values of different types  *)
(* compare without a type error in the model.                              *)
(***************************************************************************)
V_int(n) == [t |-> "int", n |-> n, s |-> <<>>, l |-> <<>>]
V_bool(b) == [t |-> "bool", n |-> IF b THEN 1 ELSE 0, s |-> <<>>, l |-> <<>>]
V_str(s) == [t |-> "str", n |-> 0, s |-> s, l |-> <<>>]
V_list(l) == [t |-> "list", n |-> 0, s |-> <<>>, l |-> l]

DigitVal(c) == CHOOSE d \in 0..9 : Digits[d + 1] = c

\* the value of a run of decimal digits
RECURSIVE IntOfDigits(_)
IntOfDigits(s) ==
    IF s = <<>> THEN 0
    ELSE 10 * IntOfDigits(SubSeq(s, 1, Len(s) - 1)) + DigitVal(s[Len(s)])

\* str(n) for an int n
RECURSIVE StrOfNat(_)
StrOfNat(n) ==
    IF n < 10 THEN <<Digits[n + 1]>>
    ELSE Append(StrOfNat(n \div 10), Digits[(n % 10) + 1])

StrOfInt(n) == IF n < 0 THEN <<"-">> \o StrOfNat(-n) ELSE StrOfNat(n)

\* str(l) for a list of int: "[10, 20, 30]"
RECURSIVE JoinInts(_)
JoinInts(l) ==
    IF l = <<>> THEN <<>>
    ELSE IF Len(l) = 1 THEN StrOfInt(l[1])
    ELSE StrOfInt(l[1]) \o <<",", " ">> \o JoinInts(Tail(l))

\* str(v)
PyStr(v) ==
    CASE v.t = "int" -> StrOfInt(v.n)
      [] v.t = "bool" -> IF v.n = 1 THEN <<"T","r","u","e">> ELSE <<"F","a","l","s","e">>
      [] v.t = "str" -> v.s
      [] OTHER -> <<"[">> \o JoinInts(v.l) \o <<"]">>

\* bool(v)
PyBool(v) ==
    CASE v.t = "int" -> v.n # 0
      [] v.t = "bool" -> v.n = 1
      [] v.t = "str" -> v.s # <<>>
      [] OTHER -> v.l # <<>>

\* s.strip()
RECURSIVE LStrip(_)
LStrip(s) == IF s # <<>> /\ s[1] \in SpaceChars THEN LStrip(Tail(s)) ELSE s

RECURSIVE RStrip(_)
RStrip(s) ==
    IF s # <<>> /\ s[Len(s)] \in SpaceChars THEN RStrip(SubSeq(s, 1, Len(s) - 1)) ELSE s

Strip(s) == LStrip(RStrip(s))

\* s without its sign, for int(s)
Unsigned(s) == IF s # <<>> /\ s[1] \in {"+", "-"} THEN Tail(s) ELSE s

\* int(s) succeeds: optional blanks, an optional sign, digits that single
\* underscores may separate
IsPyInt(s) ==
    LET u == Unsigned(Strip(s)) IN
    /\ u # <<>>
    /\ \A i \in 1..Len(u) : u[i] \in DigitChars \cup {"_"}
    /\ u[1] \in DigitChars /\ u[Len(u)] \in DigitChars
    /\ \A i \in 1..(Len(u) - 1) : ~(u[i] = "_" /\ u[i + 1] = "_")

\* the characters of s that are digits
RECURSIVE OnlyDigits(_)
OnlyDigits(s) ==
    IF s = <<>> THEN <<>>
    ELSE IF s[1] \in DigitChars THEN <<s[1]>> \o OnlyDigits(Tail(s))
    ELSE OnlyDigits(Tail(s))

\* int(s), where IsPyInt(s)
PyInt(s) ==
    LET t == Strip(s) IN
    IF t[1] = "-" THEN -IntOfDigits(OnlyDigits(t)) ELSE IntOfDigits(OnlyDigits(t))

\* s.split(" "): the pieces between single spaces
RECURSIVE SplitSpace(_, _, _)
SplitSpace(s, cur, acc) ==
    IF s = <<>> THEN Append(acc, cur)
    ELSE IF s[1] = " " THEN SplitSpace(Tail(s), <<>>, Append(acc, cur))
    ELSE SplitSpace(Tail(s), Append(cur, s[1]), acc)

Split(s) == SplitSpace(s, <<>>, <<>>)

\* Token.value()
TokenValue(tok) ==
    CASE tok.type = "NUMBER" -> V_int(IntOfDigits(tok.val))
      [] tok.type = "TRUE" -> V_bool(TRUE)
      [] tok.type = "FALSE" -> V_bool(FALSE)
      [] OTHER -> V_str(tok.val)

(***************************************************************************)
(* The environment self.env: a dict.  A str key is its text; an int key n  *)
(* is <<"#int">> \o str(n), and the bool keys are the int keys 1 and 0     *)
(* (True == 1 and False == 0 as dict keys).                                *)
(***************************************************************************)
KeyOfValue(v) ==
    IF v.t = "str" THEN v.s ELSE <<"#int">> \o StrOfInt(v.n)

EmptyEnv == [k \in {} |-> V_int(0)]

\* env[k] = v
EnvSet(env, k, v) ==
    [x \in (DOMAIN env) \cup {k} |-> IF x = k THEN v ELSE env[x]]

\* del env[k]
EnvDel(env, k) == [x \in (DOMAIN env) \ {k} |-> env[x]]

\* env.get(k, default)
EnvGet(env, k, default) == IF k \in DOMAIN env THEN env[k] ELSE default

(***************************************************************************)
(* Python list access on the token list.                                   *)
(***************************************************************************)
\* tokens[i] does not raise IndexError
InRange(tokens, i) == -Len(tokens) <= i /\ i < Len(tokens)

\* tokens[i], a negative i counting from the end
PyAt(tokens, i) == IF i >= 0 THEN tokens[i + 1] ELSE tokens[Len(tokens) + i + 1]

\* tokens[a:b] for 0 <= a <= b <= len(tokens)
Slice(tokens, a, b) == SubSeq(tokens, a + 1, b)

\* `while tokens[pos].type not in T: pos += 1` from p: where it stops, or -1
\* when it runs off the end of the list (IndexError)
RECURSIVE ScanTo(_, _, _)
ScanTo(tokens, p, T) ==
    IF p >= Len(tokens) THEN -1
    ELSE IF tokens[p + 1].type \in T THEN p
    ELSE ScanTo(tokens, p + 1, T)

\* `while tokens[pos].type == "SPACE": pos += 1` from p, or -1 (IndexError)
RECURSIVE SkipSpaces(_, _)
SkipSpaces(tokens, p) ==
    IF p >= Len(tokens) THEN -1
    ELSE IF tokens[p + 1].type = "SPACE" THEN SkipSpaces(tokens, p + 1)
    ELSE p

(***************************************************************************)
(* Parser.parse.  One pass of its `while pos < len(tokens)` loop is a      *)
(* step: from the locals (pos, result, idx) and self.env to their values   *)
(* after the branch taken for tokens[pos], or to the exception it raises.  *)
(* iter_id is None or an int; idx is a local that is unbound until the     *)
(* indexed VAR branch assigns it.                                          *)
(***************************************************************************)
NoIter == [some |-> FALSE, n |-> 0]
Iter(i) == [some |-> TRUE, n |-> i]

Unbound == [bound |-> FALSE, val |-> <<>>]
Bound(v) == [bound |-> TRUE, val |-> v]

\* the locals and the environment after a step that raised nothing
Ok(pos, result, env, idx) ==
    [err |-> "none", pos |-> pos, result |-> result, env |-> env, idx |-> idx]

\* a step that raised err, with the environment as it was left
Raise(err, pos, result, env, idx) ==
    [err |-> err, pos |-> pos, result |-> result, env |-> env, idx |-> idx]

RECURSIVE Parse(_, _, _)
RECURSIVE ParseFrom(_, _, _, _, _, _)
RECURSIVE ForLoop(_, _, _, _, _)

\* COMMENT: skip to the next NEWLINE, which is left to be evaluated
\* CommentSkipped that leaves pos at the COMMENT
CommentSkipped_stay(pos, result, env, idx, q) ==
    IF q < 0 THEN Raise("IndexError", pos, result, env, idx)
    ELSE Ok(pos, result, env, idx)

CommentSkipped(pos, result, env, idx, q) ==
    IF q < 0 THEN Raise("IndexError", pos, result, env, idx)
    ELSE Ok(q, result, env, idx)

HandleComment(tokens, pos, result, env, iter, idx) ==
    CommentSkipped(pos, result, env, idx, ScanTo(tokens, pos + 1, {"NEWLINE"}))

\* SPACE, NEWLINE: dropped when tokens[pos - 1] is a NEWLINE; at pos = 0 that
\* is tokens[-1], the last token of the list
HandleSpace(tokens, pos, result, env, iter, idx) ==
    IF PyAt(tokens, pos - 1).type = "NEWLINE"
    THEN Ok(pos + 1, result, env, idx)
    ELSE Ok(pos + 1, result \o tokens[pos + 1].val, env, idx)

\* FOR, after its iterations: l is what the loop left
ForDone(pos, idx, e, l) ==
    IF l.err # "none" THEN Raise(l.err, pos, l.out, l.env, idx)
    ELSE Ok(e + 1, l.out, l.env, idx)

\* FOR, after `start, end = ....split(" ")`: the body runs to the first END at
\* e, then int(start) and int(end) bound the iterations
ForBody(tokens, pos, result, env, idx, q, parts, e) ==
    IF Len(parts) # 2 THEN Raise("ValueError", pos, result, env, idx)
    ELSE IF e < 0 THEN Raise("IndexError", pos, result, env, idx)
    ELSE IF ~IsPyInt(parts[1]) \/ ~IsPyInt(parts[2])
    THEN Raise("ValueError", pos, result, env, idx)
    ELSE ForDone(pos, idx, e,
                 ForLoop(Slice(tokens, q + 1, e), PyInt(parts[1]), PyInt(parts[2]),
                         result, env))

\* FOR, after self.parse(range_loop) returned r
ForRange(tokens, pos, result, idx, q, r) ==
    IF r.err # "none" THEN Raise(r.err, pos, result, r.env, idx)
    ELSE ForBody(tokens, pos, result, r.env, idx, q, Split(r.out),
                 ScanTo(tokens, q + 1, {"END"}))

\* FOR, after the range's tokens were collected up to the NEWLINE at q
ForHeader(tokens, pos, result, env, idx, q) ==
    IF q < 0 THEN Raise("IndexError", pos, result, env, idx)
    ELSE ForRange(tokens, pos, result, idx, q,
                  Parse(Slice(tokens, pos + 2, q), env, NoIter))

\* FOR
HandleFor(tokens, pos, result, env, iter, idx) ==
    ForHeader(tokens, pos, result, env, idx, ScanTo(tokens, pos + 2, {"NEWLINE"}))

\* body[sel].append(tok)
BodyAppend(b, sel, mine, tok) == IF sel = mine THEN Append(b, tok) ELSE b

RECURSIVE IfScan(_, _, _, _, _, _)

\* IfScan without the depth count: the first ELSE separates the branches and
\* the first END ends the block
IfScan_flat(tokens, p, level, sel, b0, b1) ==
    IF p >= Len(tokens) THEN [err |-> "IndexError", pos |-> p, b0 |-> b0, b1 |-> b1]
    ELSE
    CASE tokens[p + 1].type = "ELSE" -> IfScan(tokens, p + 1, level, 1, b0, b1)
      [] tokens[p + 1].type = "END" -> [err |-> "none", pos |-> p, b0 |-> b0, b1 |-> b1]
      [] OTHER ->
            IfScan(tokens, p + 1, level, sel,
                   BodyAppend(b0, sel, 0, tokens[p + 1]),
                   BodyAppend(b1, sel, 1, tokens[p + 1]))

\* the scan of an if's bodies from p: `level` counts the open IF tokens, sel
\* is branch_sel, b0 and b1 are body[0] and body[1]
IfScan(tokens, p, level, sel, b0, b1) ==
    IF p >= Len(tokens) THEN [err |-> "IndexError", pos |-> p, b0 |-> b0, b1 |-> b1]
    ELSE
    CASE tokens[p + 1].type = "IF" ->
            IfScan(tokens, p + 1, level + 1, sel,
                   BodyAppend(b0, sel, 0, tokens[p + 1]),
                   BodyAppend(b1, sel, 1, tokens[p + 1]))
      [] tokens[p + 1].type = "ELSE" ->
            IF level = 1 THEN IfScan(tokens, p + 1, level, 1, b0, b1)
            ELSE IfScan(tokens, p + 1, level, sel,
                        BodyAppend(b0, sel, 0, tokens[p + 1]),
                        BodyAppend(b1, sel, 1, tokens[p + 1]))
      [] tokens[p + 1].type = "END" ->
            IF level <= 1 THEN [err |-> "none", pos |-> p, b0 |-> b0, b1 |-> b1]
            ELSE IfScan(tokens, p + 2, level - 1, sel,
                        BodyAppend(b0, sel, 0, tokens[p + 1]),
                        BodyAppend(b1, sel, 1, tokens[p + 1]))
      [] OTHER ->
            IfScan(tokens, p + 1, level, sel,
                   BodyAppend(b0, sel, 0, tokens[p + 1]),
                   BodyAppend(b1, sel, 1, tokens[p + 1]))

\* the tokens of cond that are no SPACE
RECURSIVE NoSpaces(_)
NoSpaces(cond) ==
    IF cond = <<>> THEN <<>>
    ELSE IF cond[1].type = "SPACE" THEN NoSpaces(Tail(cond))
    ELSE <<cond[1]>> \o NoSpaces(Tail(cond))

\* __handle_cond on the first token t that is no SPACE
CondOfToken(t, env) ==
    CASE t.type \in {"TRUE", "FALSE"} -> PyBool(TokenValue(t))
      [] t.type = "IDENTIFIER" -> (t.val \in DOMAIN env /\ PyBool(env[t.val]))
      [] OTHER -> PyBool(TokenValue(t))

\* __handle_cond, where NoSpaces(cond) is not empty
HandleCond(cond, env) == CondOfToken(NoSpaces(cond)[1], env)

\* cond_res without the `not` of IFNOT
CondRes_plain(cond_type, cond, env) == HandleCond(cond, env)

\* cond_res
CondRes(cond_type, cond, env) ==
    IF cond_type = "IF" THEN HandleCond(cond, env) ELSE ~HandleCond(cond, env)

\* the body parse is called on
SelectBranch(cond_res, b0, b1) == IF cond_res THEN b0 ELSE b1

\* IF, after self.parse(body[...]) returned r
IfDone(pos, result, idx, e, r) ==
    IF r.err # "none" THEN Raise(r.err, pos, result, r.env, idx)
    ELSE Ok(e + 1, result \o r.out, r.env, idx)

\* IfBodies with the definitions of the branch dropped when the block closes
IfBodies_scoped(tokens, pos, result, env, idx, cond, sc) ==
    IF sc.err # "none" THEN Raise(sc.err, pos, result, env, idx)
    ELSE IF NoSpaces(cond) = <<>> THEN Raise("IndexError", pos, result, env, idx)
    ELSE IfDone(pos, result, idx, sc.pos,
                [Parse(SelectBranch(CondRes(tokens[pos + 1].type, cond, env),
                                    sc.b0, sc.b1),
                       env, NoIter) EXCEPT !.env = env])

\* IF, after the scan sc of its bodies
IfBodies(tokens, pos, result, env, idx, cond, sc) ==
    IF sc.err # "none" THEN Raise(sc.err, pos, result, env, idx)
    ELSE IF NoSpaces(cond) = <<>> THEN Raise("IndexError", pos, result, env, idx)
    ELSE IfDone(pos, result, idx, sc.pos,
                Parse(SelectBranch(CondRes(tokens[pos + 1].type, cond, env),
                                   sc.b0, sc.b1),
                      env, NoIter))

\* IF, after the condition's tokens were collected up to the NEWLINE at q
IfHeader(tokens, pos, result, env, idx, q) ==
    IF q < 0 THEN Raise("IndexError", pos, result, env, idx)
    ELSE IfBodies(tokens, pos, result, env, idx, Slice(tokens, pos + 1, q),
                  IfScan(tokens, q + 1, 1, 0, <<>>, <<>>))

\* IF, IFNOT
HandleIf(tokens, pos, result, env, iter, idx) ==
    IfHeader(tokens, pos, result, env, idx, ScanTo(tokens, pos + 1, {"NEWLINE"}))

\* DEFINE, with the key at pk, the value at pv and the first token after them
\* that is no SPACE at pe
DefineAt(tokens, pos, result, env, idx, pk, pv, pe) ==
    IF pe < 0 THEN Raise("IndexError", pos, result, env, idx)
    ELSE Ok(pe + 2, result,
            EnvSet(env, KeyOfValue(TokenValue(tokens[pk + 1])),
                   TokenValue(tokens[pv + 1])),
            idx)

\* SkipSpaces from p + 1, where p is a place SkipSpaces found or -1
SkipNext(tokens, p) == IF p < 0 THEN -1 ELSE SkipSpaces(tokens, p + 1)

DefineValue(tokens, pos, result, env, idx, pk, pv) ==
    DefineAt(tokens, pos, result, env, idx, pk, pv, SkipNext(tokens, pv))

DefineKey(tokens, pos, result, env, idx, pk) ==
    DefineValue(tokens, pos, result, env, idx, pk, SkipNext(tokens, pk))

\* DEFINE
HandleDefine(tokens, pos, result, env, iter, idx) ==
    DefineKey(tokens, pos, result, env, idx, SkipSpaces(tokens, pos + 1))

\* UndefAt removing the key only if it is there: env.pop(key, None)
UndefAt_pop(tokens, pos, result, env, idx, q, nl) ==
    IF q < 0 THEN Raise("IndexError", pos, result, env, idx)
    ELSE IF nl < 0
    THEN Raise("IndexError", pos, result, EnvDel(env, tokens[q + 1].val), idx)
    ELSE Ok(nl + 1, result, EnvDel(env, tokens[q + 1].val), idx)

\* UNDEF, with the first IDENTIFIER at q and the NEWLINE that ends the line at nl
UndefAt(tokens, pos, result, env, idx, q, nl) ==
    IF q < 0 THEN Raise("IndexError", pos, result, env, idx)
    ELSE IF tokens[q + 1].val \notin DOMAIN env
    THEN Raise("KeyError", pos, result, env, idx)
    ELSE IF nl < 0
    THEN Raise("IndexError", pos, result, EnvDel(env, tokens[q + 1].val), idx)
    ELSE Ok(nl + 1, result, EnvDel(env, tokens[q + 1].val), idx)

UndefKey(tokens, pos, result, env, idx, q) ==
    UndefAt(tokens, pos, result, env, idx, q,
            IF q < 0 THEN -1 ELSE ScanTo(tokens, q, {"NEWLINE"}))

\* UNDEF
HandleUndef(tokens, pos, result, env, iter, idx) ==
    UndefKey(tokens, pos, result, env, idx, ScanTo(tokens, pos, {"IDENTIFIER"}))

\* key[2:-2]
VarName(key) == SubSeq(key, 3, Len(key) - 2)

\* v[i] raises nothing / what it raises / its value
IndexErr(v, i) ==
    CASE v.t = "list" -> IF -Len(v.l) <= i /\ i < Len(v.l) THEN "none" ELSE "IndexError"
      [] v.t = "str" -> IF -Len(v.s) <= i /\ i < Len(v.s) THEN "none" ELSE "IndexError"
      [] OTHER -> "TypeError"

\* IndexVal counting the elements from 1
IndexVal_onebased(v, i) ==
    IF v.t = "list" THEN V_int(PyAt(v.l, i - 1)) ELSE V_str(<<PyAt(v.s, i - 1)>>)

IndexVal(v, i) ==
    IF v.t = "list" THEN V_int(PyAt(v.l, i)) ELSE V_str(<<PyAt(v.s, i)>>)

\* str(v[n])
IndexInto(pos, result, env, i, v, n) ==
    IF IndexErr(v, n) # "none" THEN Raise(IndexErr(v, n), pos, result, env, Bound(i))
    ELSE Ok(pos + 4, result \o PyStr(IndexVal(v, n)), env, Bound(i))

\* VAR followed by `[`, a token of text i and `]`; key is the VAR's text
VarIndexed(pos, result, env, iter, key, i) ==
    IF i = S_it /\ ~iter.some THEN Ok(pos + 4, result \o i, env, Bound(i))
    ELSE IF i = S_it THEN Ok(pos + 4, result \o StrOfInt(iter.n), env, Bound(i))
    ELSE IF ~IsPyInt(i) THEN Raise("ValueError", pos, result, env, Bound(i))
    ELSE IndexInto(pos, result, env, i, EnvGet(env, VarName(key), V_str(key)), PyInt(i))

HandleVarIndexed(tokens, pos, result, env, iter, idx) ==
    VarIndexed(pos, result, env, iter, tokens[pos + 1].val, tokens[pos + 3].val)

\* VAR not followed by an index; key is the VAR's text
VarPlain(pos, result, env, iter, idx, key) ==
    IF key = S_it /\ ~iter.some
    THEN IF idx.bound THEN Ok(pos + 1, result \o idx.val, env, idx)
         ELSE Raise("UnboundLocalError", pos, result, env, idx)
    ELSE IF key = S_it THEN Ok(pos + 1, result \o StrOfInt(iter.n), env, idx)
    ELSE Ok(pos + 1, result \o PyStr(EnvGet(env, VarName(key), V_str(key))), env, idx)

HandleVarPlain(tokens, pos, result, env, iter, idx) ==
    VarPlain(pos, result, env, iter, idx, tokens[pos + 1].val)

\* the test of the VAR branch: "indexed", "plain", or "IndexError" when
\* tokens[pos + 1] or tokens[pos + 3] is past the end of the list
VarShape(tokens, pos) ==
    IF Len(tokens) <= 3 THEN "plain"
    ELSE IF ~InRange(tokens, pos + 1) THEN "IndexError"
    ELSE IF tokens[pos + 2].type # "LB" THEN "plain"
    ELSE IF ~InRange(tokens, pos + 3) THEN "IndexError"
    ELSE IF tokens[pos + 4].type # "RB" THEN "plain"
    ELSE "indexed"

\* VAR
HandleVar(tokens, pos, result, env, iter, idx) ==
    CASE VarShape(tokens, pos) = "plain" ->
            HandleVarPlain(tokens, pos, result, env, iter, idx)
      [] VarShape(tokens, pos) = "indexed" ->
            HandleVarIndexed(tokens, pos, result, env, iter, idx)
      [] OTHER -> Raise("IndexError", pos, result, env, idx)

\* any other token: its text
HandleOther(tokens, pos, result, env, iter, idx) ==
    Ok(pos + 1, result \o tokens[pos + 1].val, env, idx)

\* one pass of the loop of parse, for 0 <= pos < len(tokens)
Step(tokens, pos, result, env, iter, idx) ==
    CASE tokens[pos + 1].type = "COMMENT" ->
            HandleComment(tokens, pos, result, env, iter, idx)
      [] tokens[pos + 1].type \in {"SPACE", "NEWLINE"} ->
            HandleSpace(tokens, pos, result, env, iter, idx)
      [] tokens[pos + 1].type = "FOR" ->
            HandleFor(tokens, pos, result, env, iter, idx)
      [] tokens[pos + 1].type \in {"IF", "IFNOT"} ->
            HandleIf(tokens, pos, result, env, iter, idx)
      [] tokens[pos + 1].type = "DEFINE" ->
            HandleDefine(tokens, pos, result, env, iter, idx)
      [] tokens[pos + 1].type = "UNDEF" ->
            HandleUndef(tokens, pos, result, env, iter, idx)
      [] tokens[pos + 1].type = "VAR" ->
            HandleVar(tokens, pos, result, env, iter, idx)
      [] OTHER -> HandleOther(tokens, pos, result, env, iter, idx)

\* parse after a pass s of its loop: it raises, or goes on from s.pos
Continue(tokens, iter, s) ==
    IF s.err # "none" THEN [err |-> s.err, out |-> s.result, env |-> s.env]
    ELSE ParseFrom(tokens, s.pos, s.result, s.env, iter, s.idx)

\* the loop of parse from pos on: the string returned, or the exception
ParseFrom(tokens, pos, result, env, iter, idx) ==
    IF pos >= Len(tokens) THEN [err |-> "none", out |-> result, env |-> env]
    ELSE Continue(tokens, iter, Step(tokens, pos, result, env, iter, idx))

\* self.parse(tokens, iter_id): [err, out, env]
Parse(tokens, env, iter) == ParseFrom(tokens, 0, <<>>, env, iter, Unbound)

\* the loop of FOR after self.parse(body, iter_id=i) returned r
ForNext(body, i, end, result, r) ==
    IF r.err # "none" THEN [err |-> r.err, out |-> result, env |-> r.env]
    ELSE ForLoop(body, i + 1, end, result \o r.out, r.env)

\* ForLoop with the end of the range included
ForLoop_inclusive(body, i, end, result, env) ==
    IF i > end THEN [err |-> "none", out |-> result, env |-> env]
    ELSE ForNext(body, i, end, result, Parse(body, env, Iter(i)))

\* `for i in range(i, end): result += self.parse(body, iter_id=i)`
ForLoop(body, i, end, result, env) ==
    IF i >= end THEN [err |-> "none", out |-> result, env |-> env]
    ELSE ForNext(body, i, end, result, Parse(body, env, Iter(i)))

\* Parser(buf, env).eval() after tokenize returned t
EvalTokens(t, env) ==
    IF t.err # "none" THEN [err |-> t.err, out |-> <<>>, env |-> env]
    ELSE Parse(t.tokens, env, NoIter)

\* Parser(buf, env).eval()
Eval(buf, env) == EvalTokens(Tokenize(buf), env)

(***************************************************************************)
(* The buffers and environments evaluated.                                 *)
(***************************************************************************)
SP == <<" ">>
NL == <<"\n">>
LB == <<"[">>
RB == <<"]">>
S_true == <<"t", "r", "u", "e">>
S_false == <<"f", "a", "l", "s", "e">>

\* ..name::
Ref(name) == <<".", ".">> \o name \o <<":", ":">>

\* every text of at most n characters of S
RECURSIVE Texts(_, _)
Texts(S, n) ==
    IF n = 0 THEN {<<>>}
    ELSE Texts(S, n - 1) \cup
         {Append(t, c) : t \in {u \in Texts(S, n - 1) : Len(u) = n - 1}, c \in S}

\* literal text: a blank, a line break and a letter; and `.`, which no rule matches
LitChars == {" ", "\n", "a"}
LiteralBufs == Texts(LitChars \cup {"."}, MaxLit)

\* a text of literal characters only
IsLiteral(b) == \A i \in 1..Len(b) : b[i] \in LitChars

\* ..for:: s e / A..it:: / ..end::
ForBuf(s, e) ==
    S_for \o SP \o StrOfNat(s) \o SP \o StrOfNat(e) \o NL
        \o <<"A">> \o S_it \o NL \o S_end

ForBufs == {ForBuf(s, e) : s \in 0..MaxN, e \in 0..MaxN}

\* open c1 / ..if:: c2 / X / ..else:: / Y / ..end:: / ..end::
NestedIfBuf(open, c1, c2) ==
    open \o SP \o c1 \o NL \o S_if \o SP \o c2 \o NL \o <<"X">> \o NL
        \o S_else \o NL \o <<"Y">> \o NL \o S_end \o NL \o S_end

Conds == {S_true, S_false}

NestedIfBufs == {NestedIfBuf(o, c1, c2) : o \in {S_if, S_ifnot}, c1 \in Conds, c2 \in Conds}

\* the first lines of the blocks a define is put in
BlockOpeners ==
    {S_if \o SP \o S_true, S_if \o SP \o S_false,
     S_ifnot \o SP \o S_false, S_ifnot \o SP \o S_true,
     S_for \o SP \o <<"0">> \o SP \o <<"2">>,
     S_for \o SP \o <<"1">> \o SP \o <<"1">>}

\* the values written in a define
DefValues == {<<"5">>, <<"4", "2">>, <<"a", "b">>, S_true}

\* opener / ..define:: x v / ..end:: / ..x:: /
DefineInBlockBuf(opener, v) ==
    opener \o NL \o S_define \o SP \o <<"x">> \o SP \o v \o NL \o S_end \o NL
        \o Ref(<<"x">>) \o NL

DefineInBlockBufs == {DefineInBlockBuf(o, v) : o \in BlockOpeners, v \in DefValues}

\* what follows a define's line
NextLines ==
    {<<>>, Ref(<<"x">>) \o NL, SP \o Ref(<<"x">>) \o NL, <<"a">> \o NL,
     <<"a">> \o SP \o <<"b">> \o NL, NL \o <<"a">> \o NL}

\* ..define:: x v / rest
DefineBuf(v, rest) == S_define \o SP \o <<"x">> \o SP \o v \o NL \o rest

DefineBufs == {DefineBuf(v, r) : v \in DefValues, r \in NextLines}

\* ..undef:: k / ..k:: /
UndefBuf(k) == S_undef \o SP \o k \o NL \o Ref(k) \o NL

Names == {<<"x">>, <<"k">>, <<"q">>}

UndefBufs == {UndefBuf(k) : k \in Names} \cup {S_undef \o SP \o k : k \in Names}

\* n times `a `
RECURSIVE Prefix(_)
Prefix(n) == IF n = 0 THEN <<>> ELSE <<"a">> \o SP \o Prefix(n - 1)

Suffixes == {<<>>, NL, SP \o <<"b">> \o NL}

\* a reference after n literal words
RefBufs ==
    {Prefix(n) \o Ref(k) \o t : n \in 0..MaxPrefix, k \in Names \cup {<<"i", "t">>},
                                  t \in Suffixes}

\* ..name::[k]
IndexBuf(name, k) == Ref(name) \o LB \o StrOfNat(k) \o RB

IndexBufs ==
    {Prefix(n) \o IndexBuf(<<"n", "a", "m", "e">>, k) \o t :
        n \in 0..1, k \in 0..MaxIdx, t \in Suffixes \cup {S_it \o NL}}

CommentBufs ==
    {<<"#", "c", "\n", "a">>, <<"a", " ", "#", "#", " ", "c", "\n", " ", "b", "\n">>,
     <<"a", "#">>}

\* complete blocks put in the body of a loop
InnerBlocks ==
    {S_if \o SP \o S_true \o NL \o <<"A">> \o NL \o S_end,
     S_ifnot \o SP \o S_false \o NL \o <<"A">> \o NL \o S_end,
     S_for \o SP \o <<"0">> \o SP \o <<"2">> \o NL \o <<"A">> \o S_it \o NL \o S_end}

\* ..for:: 0 2 / inner / ..end::
NestedForBuf(inner) ==
    S_for \o SP \o <<"0">> \o SP \o <<"2">> \o NL \o inner \o NL \o S_end

NestedForBufs == {NestedForBuf(b) : b \in InnerBlocks}

\* ..if:: true / opener / X / ..end::Z / ..end::
KeptTokenBuf(opener) ==
    S_if \o SP \o S_true \o NL \o opener \o NL \o <<"X">> \o NL \o S_end
        \o <<"Z">> \o NL \o S_end

KeptTokenBufs == {KeptTokenBuf(o) : o \in {S_if \o SP \o S_true, S_ifnot \o SP \o S_false}}

\* the mappings a caller passes
Env_x == [k \in {<<"x">>} |-> V_int(1)]
Env_k == [k \in {<<"k">>, <<"q">>} |-> IF k = <<"k">> THEN V_int(7) ELSE V_str(<<"v">>)]
Lists == {<<>>, <<7>>, <<10, 20, 30>>}
Env_name(l) == [k \in {<<"n", "a", "m", "e">>} |-> V_list(l)]

\* the list a loop walks with its index
WalkedList == <<10, 20, 30>>

\* ..for:: s e / ..name::[..it::] / ..end::
IterIndexBuf(s, e) ==
    S_for \o SP \o StrOfNat(s) \o SP \o StrOfNat(e) \o NL
        \o Ref(<<"n", "a", "m", "e">>) \o LB \o S_it \o RB \o NL \o S_end

IterIndexBufs == {IterIndexBuf(s, e) : s \in 0..Len(WalkedList), e \in 0..Len(WalkedList)}

\* the conditions of a block: the words true and false, a name, numbers
BranchConds == {S_true, S_false, <<"x">>, <<"0">>, <<"1">>}

NoElse == <<>>
ElseDefine == S_else \o <<"E">> \o NL \o S_define \o SP \o <<"y">> \o SP \o <<"2">> \o NL
ElseUndef == S_else \o <<"E">> \o NL \o S_undef \o SP \o <<"x">> \o NL

ElseParts == {NoElse, ElseDefine, ElseUndef}

\* opener c / T / ..define:: t 1 / else part / ..end::
BranchBuf(opener, c, else) ==
    opener \o SP \o c \o NL \o <<"T">> \o NL
        \o S_define \o SP \o <<"t">> \o SP \o <<"1">> \o NL \o else \o S_end

BranchBufs == {BranchBuf(o, c, l) : o \in {S_if, S_ifnot}, c \in BranchConds, l \in ElseParts}

Setup(b, e) == [buf |-> b, env |-> e]

Setups ==
    {Setup(b, e) : b \in LiteralBufs \cup CommentBufs, e \in {EmptyEnv}}
    \cup {Setup(b, e) : b \in ForBufs \cup NestedIfBufs \cup NestedForBufs \cup KeptTokenBufs,
                            e \in {EmptyEnv}}
    \cup {Setup(b, e) : b \in DefineInBlockBufs \cup DefineBufs \cup BranchBufs,
                            e \in {EmptyEnv, Env_x}}
    \cup {Setup(b, e) : b \in UndefBufs \cup RefBufs, e \in {EmptyEnv, Env_x, Env_k}}
    \cup {Setup(b, Env_name(l)) : b \in IndexBufs, l \in Lists}
    \cup {Setup(b, Env_name(WalkedList)) : b \in IterIndexBufs}

(***************************************************************************)
(* The state of one Parser and of its eval() call.                         *)
(***************************************************************************)
VARIABLES
    buf,      \* self.buf
    env0,     \* the caller's mapping
    env,      \* self.env
    bpos,     \* self.pos
    tokens,   \* the list tokenize builds and parse walks
    pc,       \* "lex", "parse", "done" (eval returned) or "error" (it raised)
    pos,      \* parse's pos
    result,   \* parse's result
    idx,      \* parse's idx
    err,      \* the exception raised, or "none"
    errargs   \* the arguments the ParserError of get_token was raised with

vars == <<buf, env0, env, bpos, tokens, pc, pos, result, idx, err, errargs>>

\* `raise ParserError` at offset p: the class is raised bare, with no arguments
ParserErrorArgs(p) == <<>>

\* self.env aliases the caller's mapping
CallerEnv_alias(caller, own) == own

\* the caller's mapping once self.env holds own: self.env is env.copy(), another
\* dict, so the assignments and deletions of parse do not reach the caller's
CallerEnv(caller, own) == caller

\* Parser(buf, env), and eval() entered
Init ==
    \E s \in Setups :
        /\ buf = s.buf
        /\ env0 = s.env
        /\ env = s.env
        /\ bpos = 0
        /\ tokens = <<>>
        /\ pc = "lex"
        /\ pos = 0
        /\ result = <<>>
        /\ idx = Unbound
        /\ err = "none"
        /\ errargs = <<>>

\* get_token returns a token
GetToken ==
    /\ pc = "lex"
    /\ bpos < Len(buf)
    /\ Matches(buf, bpos)
    /\ tokens' = Append(tokens, MatchToken(buf, bpos))
    /\ bpos' = MatchEnd(buf, bpos)
    /\ UNCHANGED <<buf, env0, env, pc, pos, result, idx, err, errargs>>

\* get_token raises ParserError
LexError ==
    /\ pc = "lex"
    /\ bpos < Len(buf)
    /\ ~Matches(buf, bpos)
    /\ pc' = "error"
    /\ err' = "ParserError"
    /\ errargs' = ParserErrorArgs(bpos)
    /\ UNCHANGED <<buf, env0, env, bpos, tokens, pos, result, idx>>

\* get_token returns None: tokenize returns and parse starts
TokenizeDone ==
    /\ pc = "lex"
    /\ bpos >= Len(buf)
    /\ pc' = "parse"
    /\ UNCHANGED <<buf, env0, env, bpos, tokens, pos, result, idx, err, errargs>>

\* the locals and self.env after a pass of parse's loop
Apply(s) ==
    /\ pos' = s.pos
    /\ result' = s.result
    /\ env' = s.env
    /\ idx' = s.idx
    /\ err' = s.err
    /\ pc' = IF s.err = "none" THEN "parse" ELSE "error"
    /\ env0' = CallerEnv(env0, s.env)
    /\ UNCHANGED <<buf, bpos, tokens, errargs>>

\* parse is at a token of one of the types T
At(T) == pc = "parse" /\ pos < Len(tokens) /\ tokens[pos + 1].type \in T

ParseComment ==
    /\ At({"COMMENT"})
    /\ Apply(HandleComment(tokens, pos, result, env, NoIter, idx))

ParseSpace ==
    /\ At({"SPACE", "NEWLINE"})
    /\ Apply(HandleSpace(tokens, pos, result, env, NoIter, idx))

ParseFor ==
    /\ At({"FOR"})
    /\ Apply(HandleFor(tokens, pos, result, env, NoIter, idx))

ParseIf ==
    /\ At({"IF", "IFNOT"})
    /\ Apply(HandleIf(tokens, pos, result, env, NoIter, idx))

ParseDefine ==
    /\ At({"DEFINE"})
    /\ Apply(HandleDefine(tokens, pos, result, env, NoIter, idx))

ParseUndef ==
    /\ At({"UNDEF"})
    /\ Apply(HandleUndef(tokens, pos, result, env, NoIter, idx))

ParseVar ==
    /\ At({"VAR"})
    /\ Apply(HandleVar(tokens, pos, result, env, NoIter, idx))

ParseOther ==
    /\ At(Range(RuleTypes) \ {"COMMENT", "SPACE", "NEWLINE", "FOR", "IF", "IFNOT",
                               "DEFINE", "UNDEF", "VAR"})
    /\ Apply(HandleOther(tokens, pos, result, env, NoIter, idx))

\* the loop of parse ends: eval returns result
ParseReturn ==
    /\ pc = "parse"
    /\ pos >= Len(tokens)
    /\ pc' = "done"
    /\ UNCHANGED <<buf, env0, env, bpos, tokens, pos, result, idx, err, errargs>>

Next ==
    \/ GetToken
    \/ LexError
    \/ TokenizeDone
    \/ ParseComment
    \/ ParseSpace
    \/ ParseFor
    \/ ParseIf
    \/ ParseDefine
    \/ ParseUndef
    \/ ParseVar
    \/ ParseOther
    \/ ParseReturn

Spec == Init /\ [][Next]_vars

(***************************************************************************)
(* Properties.                                                             *)
(***************************************************************************)
Done == pc = "done"
Finished == pc \in {"done", "error"}

\* the value a define stores for the literal text v
ValueOfText(v) == TokenValue(MatchToken(v, 0))

\* the openers whose body is evaluated at least once
RunningOpeners ==
    {S_if \o SP \o S_true, S_ifnot \o SP \o S_false,
     S_for \o SP \o <<"0">> \o SP \o <<"2">>}

\* the define values whose string form is their own text
PlainValues == {<<"5">>, <<"4", "2">>, <<"a", "b">>}

\* C1: a define evaluated inside an if, ifnot or for body is not scoped to
\* the block: once the block has closed (the walk has left position 0, where
\* the block opens), the environment maps x to the defined value until the end
\* of the evaluation, and the later reference ..x:: renders that value.
C1_DefineEscapesBlock ==
    \A o \in RunningOpeners, v \in DefValues :
        (buf = DefineInBlockBuf(o, v) /\ pc \in {"parse", "done", "error"} /\ pos > 0)
        => /\ pc # "error"
           /\ <<"x">> \in DOMAIN env
           /\ env[<<"x">>] = ValueOfText(v)
           /\ (Done => result = NL \o PyStr(ValueOfText(v)) \o NL)
           /\ (Done /\ v \in PlainValues => result = NL \o v \o NL)

C1_Witness ==
    /\ buf = DefineInBlockBuf(S_for \o SP \o <<"0">> \o SP \o <<"2">>, <<"5">>)
    /\ env0 = EmptyEnv
    /\ Done
    /\ env[<<"x">>] = V_int(5)
    /\ result = <<"\n", "5", "\n">>

\* the text `A` i sep for each i from s to e - 1, in increasing order
RECURSIVE Iterations(_, _, _)
Iterations(s, e, sep) ==
    IF s >= e THEN <<>>
    ELSE <<"A">> \o StrOfNat(s) \o sep \o Iterations(s + 1, e, sep)

\* C2 as stated: the loop ..for:: s e / A..it:: / ..end:: yields exactly `A` i
\* for each i from s to e - 1 and nothing else (A0A1A2 for 0 and 3), and the
\* empty string when s >= e.
C2_Original ==
    \A s \in 0..MaxN, e \in 0..MaxN :
        (buf = ForBuf(s, e) /\ Finished) => (Done /\ result = Iterations(s, e, <<>>))

\* C2 as amended: every iteration also yields the line break that ends the
\* body's line: `A` i and a line break for each i from s to e - 1 in increasing
\* order and nothing else, and the empty string when s >= e.
C2_ForOutput ==
    \A s \in 0..MaxN, e \in 0..MaxN :
        (buf = ForBuf(s, e) /\ Finished) => (Done /\ result = Iterations(s, e, NL))

C2_Witness ==
    /\ buf = ForBuf(0, 3)
    /\ Done
    /\ result = <<"A", "0", "\n", "A", "1", "\n", "A", "2", "\n">>

\* C3 as stated: ..if:: true / ..if:: false / X / ..else:: / Y / ..end:: /
\* ..end:: yields exactly `Y`.
C3_Original ==
    (buf = NestedIfBuf(S_if, S_true, S_false) /\ Finished)
        => (Done /\ result = <<"Y">>)

\* what the nested block yields when the outer condition selects its then-body:
\* the line of the inner branch the inner condition selects
InnerLine(c2) == IF c2 = S_true THEN <<"X", "\n">> ELSE <<"Y", "\n">>

\* C3 as amended: the blocks are matched by depth count, the else belongs to
\* the inner if and the output is the selected inner line with its line break:
\* `Y` and a line break for true / false (X is never emitted), and nothing
\* when the outer condition does not select the then-body.
C3_NestedIf ==
    \A c1 \in Conds, c2 \in Conds :
        /\ (buf = NestedIfBuf(S_if, c1, c2) /\ Finished)
            => (Done /\ result = IF c1 = S_true THEN InnerLine(c2) ELSE <<>>)
        /\ (buf = NestedIfBuf(S_ifnot, c1, c2) /\ Finished)
            => (Done /\ result = IF c1 = S_false THEN InnerLine(c2) ELSE <<>>)

C3_Witness ==
    /\ buf = NestedIfBuf(S_if, S_true, S_false)
    /\ Done
    /\ result = <<"Y", "\n">>

\* the first NEWLINE token at or after position p, or -1
LineBreakFrom(p) == ScanTo(tokens, p, {"NEWLINE"})

\* C4 as stated: a define consumes its own line through the line break and
\* nothing of the following line: the walk resumes at the token that follows
\* the line break (or ends, when the line break is the last token).
C4_Original ==
    [][(At({"DEFINE"}) /\ LineBreakFrom(pos) >= 0)
        => /\ pc' = "parse"
           /\ \/ pos' = LineBreakFrom(pos) + 1
              \/ (LineBreakFrom(pos) + 1 >= Len(tokens) /\ pos' >= Len(tokens))]_vars

\* the VAR at position p is not followed by `[`, a token and `]`
PlainRefAt(p) ==
    ~(/\ p + 3 < Len(tokens)
      /\ tokens[p + 2].type = "LB"
      /\ tokens[p + 4].type = "RB")

\* C5 as stated: a non-indexed reference to a name that is absent from the
\* environment, and is not the iteration marker, appends its own text and does
\* not fail, wherever it stands in the token list and whatever the list's length.
C5_Original ==
    [][(/\ At({"VAR"})
        /\ PlainRefAt(pos)
        /\ tokens[pos + 1].val # S_it
        /\ VarName(tokens[pos + 1].val) \notin DOMAIN env)
        => /\ pc' = "parse"
           /\ pos' = pos + 1
           /\ result' = result \o tokens[pos + 1].val]_vars

\* the token at position p + 1 is the IDENTIFIER k, after one SPACE
KeyAfter(p, k) ==
    /\ p + 2 < Len(tokens)
    /\ tokens[p + 2].type = "SPACE"
    /\ tokens[p + 3] = Token("IDENTIFIER", k)

\* C6: ..undef:: k fails when k is no key of the environment (a KeyError, the
\* environment left as it was); when k is a key it removes k and only k, and
\* a ..k:: evaluated afterwards renders as its own text.
C6_Undef ==
    /\ [][\A k \in Names :
            (At({"UNDEF"}) /\ KeyAfter(pos, k))
            => IF k \notin DOMAIN env
               THEN pc' = "error" /\ err' = "KeyError" /\ env' = env
               ELSE /\ DOMAIN env' = (DOMAIN env) \ {k}
                    /\ \A j \in DOMAIN env' : env'[j] = env[j]]_vars
    /\ [](\A k \in Names :
            (buf = UndefBuf(k) /\ Finished)
            => IF k \in DOMAIN env0
               THEN Done /\ k \notin DOMAIN env /\ result = Ref(k) \o NL
               ELSE pc = "error" /\ err = "KeyError")

C6_Witness ==
    /\ buf = UndefBuf(<<"k">>)
    /\ env0 = Env_k
    /\ Done
    /\ DOMAIN env = {<<"q">>}
    /\ result = Ref(<<"k">>) \o NL

\* C7 as stated: with no loop active, a non-indexed ..it:: that another token
\* follows appends the marker text ..it:: and raises nothing (the walk of the
\* whole token list has no loop index).
C7_Original ==
    [][(/\ At({"VAR"})
        /\ PlainRefAt(pos)
        /\ pos + 1 < Len(tokens)
        /\ tokens[pos + 1].val = S_it)
        => /\ pc' = "parse"
           /\ pos' = pos + 1
           /\ result' = result \o S_it]_vars

\* the VAR at position p is followed by `[`, an integer literal and `]`
IndexedRefAt(p) ==
    /\ p + 3 < Len(tokens)
    /\ tokens[p + 2].type = "LB"
    /\ tokens[p + 3].type = "NUMBER"
    /\ tokens[p + 4].type = "RB"

NameKey == <<"n", "a", "m", "e">>

\* C8: ..name::[k] on a sequence of length n appends the string form of
\* element k when k < n, the walk resuming after the closing bracket, and
\* fails with an IndexError when k >= n; [10, 20, 30] and k = 2 give 30.
C8_IndexedRef ==
    /\ [][(/\ At({"VAR"})
           /\ IndexedRefAt(pos)
           /\ VarName(tokens[pos + 1].val) \in DOMAIN env
           /\ env[VarName(tokens[pos + 1].val)].t = "list")
           => IF IntOfDigits(tokens[pos + 3].val)
                    < Len(env[VarName(tokens[pos + 1].val)].l)
              THEN /\ pc' = "parse"
                   /\ pos' = pos + 4
                   /\ result' = result \o
                        StrOfInt(env[VarName(tokens[pos + 1].val)].l[
                                    IntOfDigits(tokens[pos + 3].val) + 1])
              ELSE pc' = "error" /\ err' = "IndexError"]_vars
    /\ []((buf = IndexBuf(NameKey, 2) /\ env0 = Env_name(<<10, 20, 30>>) /\ Finished)
            => (Done /\ result = <<"3", "0">>))

C8_Witness ==
    /\ buf = IndexBuf(NameKey, 2)
    /\ env0 = Env_name(<<10, 20, 30>>)
    /\ Done
    /\ result = <<"3", "0">>

\* a directive marker (two characters, word characters, two colons) stands in t
HasMarker(t) == \E p \in 0..(Len(t) - 1) : VarEnd(t, p) >= 0

\* the environments an output is evaluated again with
OtherEnvs == {EmptyEnv, Env_x, Env_k}

\* C9 as stated: an output that holds no directive marker evaluates again,
\* with the same or any other environment, to itself.
C9_Original ==
    (Done /\ ~HasMarker(result))
        => \A e \in OtherEnvs \cup {env0} :
              Eval(result, e).err = "none" /\ Eval(result, e).out = result

\* the texts of the tokens of toks from the i-th on, a SPACE or NEWLINE left
\* out when the token before it is a NEWLINE; the first token has none before it
RECURSIVE Normalized(_, _)
Normalized(toks, i) ==
    IF i > Len(toks) THEN <<>>
    ELSE IF /\ toks[i].type \in {"SPACE", "NEWLINE"}
            /\ i > 1
            /\ toks[i - 1].type = "NEWLINE"
    THEN Normalized(toks, i + 1)
    ELSE toks[i].val \o Normalized(toks, i + 1)

\* C10 as stated: literal text evaluates successfully to itself, but for the
\* whitespace that follows a line break; whitespace at the very start of the
\* buffer is kept.
C10_Original ==
    (IsLiteral(buf) /\ Finished) => (Done /\ result = Normalized(tokens, 1))

\* the texts of the tokens of toks, joined in order
RECURSIVE TokenTexts(_)
TokenTexts(toks) ==
    IF toks = <<>> THEN <<>> ELSE Head(toks).val \o TokenTexts(Tail(toks))

\* the tokens read so far are not empty and cover the buffer up to self.pos
\* with no gap and no overlap
Covered ==
    /\ bpos <= Len(buf)
    /\ TokenTexts(tokens) = SubSeq(buf, 1, bpos)
    /\ \A i \in 1..Len(tokens) : tokens[i].val # <<>>

\* the offset of the first `.` of b, or -1
FirstDot(b) ==
    IF \E i \in 1..Len(b) : b[i] = "."
    THEN (CHOOSE i \in 1..Len(b) : b[i] = "." /\ \A j \in 1..(i - 1) : b[j] # ".") - 1
    ELSE -1

\* the lexer has failed
LexFailed == pc = "error" /\ err = "ParserError"

\* the lexer fails exactly on the texts that lead it to an offset no rule
\* matches at: a literal text with a `.`, at its first `.`
FailsAtFirstGap ==
    (buf \in LiteralBufs /\ pc # "lex")
        => /\ LexFailed = (FirstDot(buf) >= 0)
           /\ LexFailed => bpos = FirstDot(buf)

\* the tokens cover the buffer, all of it once tokenize has returned
CoversBuffer ==
    /\ Covered
    /\ (pc # "lex" /\ ~LexFailed) => (bpos = Len(buf) /\ err # "ParserError")
    /\ LexFailed => (bpos < Len(buf) /\ ~Matches(buf, bpos))

SecondSees == Eval(Ref(<<"x">>), env0).out

\* what ..x:: gives with the mappings passed along with a define: its own
\* text, or the 1 of Env_x
SeededValues == {Ref(<<"x">>), <<"1">>}

\* C12: no step of an evaluation, be it its last before an error, changes the
\* mapping the caller passed, and an evaluation seeded from that mapping after
\* a define of x has run does not see the value defined.
C12_CallerEnv ==
    /\ [][env0' = env0]_vars
    /\ []((buf \in DefineBufs /\ Finished) => SecondSees \in SeededValues)

\* a define has rebound x in self.env, which the caller's mapping held as 1
C12_Witness ==
    /\ Done
    /\ buf \in DefineBufs
    /\ env0 = Env_x
    /\ env[<<"x">>] # env0[<<"x">>]

\* C13 as stated: a loop whose body holds a complete nested block ends at its
\* own end, the nested block and its end being part of the body: the
\* evaluation succeeds and has walked all the tokens.
C13_Original ==
    (buf \in NestedForBufs /\ Finished) => (Done /\ pos = Len(tokens))

\* the offset of the END that closes the block open at p, where `depth` blocks
\* are open and IF and IFNOT open one more; -1 when there is none
RECURSIVE MatchingEnd(_, _, _)
MatchingEnd(toks, p, depth) ==
    IF p >= Len(toks) THEN -1
    ELSE IF toks[p + 1].type \in {"IF", "IFNOT"} THEN MatchingEnd(toks, p + 1, depth + 1)
    ELSE IF toks[p + 1].type = "END" /\ depth = 1 THEN p
    ELSE IF toks[p + 1].type = "END" THEN MatchingEnd(toks, p + 1, depth - 1)
    ELSE MatchingEnd(toks, p + 1, depth)

\* the offset of the ELSE at depth 1 from p on, or -1
RECURSIVE Separator(_, _, _)
Separator(toks, p, depth) ==
    IF p >= Len(toks) THEN -1
    ELSE IF toks[p + 1].type \in {"IF", "IFNOT"} THEN Separator(toks, p + 1, depth + 1)
    ELSE IF toks[p + 1].type = "ELSE" /\ depth = 1 THEN p
    ELSE IF toks[p + 1].type = "END" /\ depth = 1 THEN -1
    ELSE IF toks[p + 1].type = "END" THEN Separator(toks, p + 1, depth - 1)
    ELSE Separator(toks, p + 1, depth)

\* the bodies of the block whose condition line ends at q and whose matching
\* END is at e: all the tokens between them but the depth-1 ELSE
ExactBodies(toks, q, e) ==
    LET s == Separator(toks, q + 1, 1)
    IN  IF s < 0 THEN [b0 |-> Slice(toks, q + 1, e), b1 |-> <<>>]
        ELSE [b0 |-> Slice(toks, q + 1, s), b1 |-> Slice(toks, s + 1, e)]

\* the scan of the block at pos gives the bodies x and stops at e
ScansTo(q, e, x) ==
    LET sc == IfScan(tokens, q + 1, 1, 0, <<>>, <<>>)
    IN  sc.err = "none" /\ sc.pos = e /\ sc.b0 = x.b0 /\ sc.b1 = x.b1

\* C14 as stated: the scan of an if or ifnot block that has a depth-matched
\* end stops at that end, and the then-body and the else-body hold, in order,
\* every token between the condition's line break and that end but the
\* depth-1 else: nested if and ifnot blocks raise the depth, and the token
\* after a nested end is kept.
C14_Original ==
    At({"IF", "IFNOT"}) =>
        LET q == ScanTo(tokens, pos + 1, {"NEWLINE"})
            e == MatchingEnd(tokens, q + 1, 1)
        IN  (q >= 0 /\ e >= 0) => ScansTo(q, e, ExactBodies(tokens, q, e))

\* the string forms of the elements s to e-1 of l, a line break after each
RECURSIVE ElementLines(_, _, _)
ElementLines(l, s, e) ==
    IF s >= e THEN <<>> ELSE StrOfInt(l[s + 1]) \o NL \o ElementLines(l, s + 1, e)

\* C15 as stated: in the iteration with index i, ..name::[..it::] appends the
\* string form of element i of environment[name]: a loop from s to e over
\* such a line gives the elements s to e-1, one a line.
C15_Original ==
    (buf \in IterIndexBufs /\ Finished) =>
        /\ Done
        /\ \E s, e \in 0..Len(WalkedList) :
              buf = IterIndexBuf(s, e) /\ result = ElementLines(WalkedList, s, e)

\* whether the condition c is true with the mapping e: the words, the name x
\* by its value, the numbers by being non-zero
Truth(c, e) ==
    CASE c = S_true -> TRUE
      [] c = S_false -> FALSE
      [] c = <<"x">> -> e = Env_x
      [] c = <<"0">> -> FALSE
      [] c = <<"1">> -> TRUE

\* the then-body alone was evaluated: its text and its define
ThenOnly ==
    /\ Done
    /\ result = <<"T">> \o NL
    /\ env = EnvSet(env0, <<"t">>, ValueOfText(<<"1">>))

\* the else part alone was evaluated: nothing when there is none, its text
\* and its define, or its text and its undef, which fails when x is not defined
ElseOnly(else) ==
    CASE else = NoElse -> Done /\ result = <<>> /\ env = env0
      [] else = ElseDefine ->
            /\ Done
            /\ result = <<"E">> \o NL
            /\ env = EnvSet(env0, <<"y">>, ValueOfText(<<"2">>))
      [] else = ElseUndef ->
            IF <<"x">> \in DOMAIN env0
            THEN Done /\ result = <<"E">> \o NL /\ env = EnvDel(env0, <<"x">>)
            ELSE pc = "error" /\ err = "KeyError" /\ env = env0

\* C16: of an if or ifnot block one branch is evaluated, the then-body when
\* the condition is true for if and false for ifnot, else the else-body; the
\* text and the directives of the other branch leave the output and the
\* environment alone, and a missing else-body adds nothing.
C16_OneBranch ==
    (buf \in BranchBufs /\ Finished) =>
        \E o \in {S_if, S_ifnot}, c \in BranchConds, l \in ElseParts :
            /\ buf = BranchBuf(o, c, l)
            /\ IF (o = S_if) = Truth(c, env0) THEN ThenOnly ELSE ElseOnly(l)

\* ifnot with a true name has evaluated the else-body and its define alone
C16_Witness ==
    /\ Done
    /\ buf = BranchBuf(S_ifnot, <<"x">>, ElseDefine)
    /\ env0 = Env_x
    /\ result = <<"E">> \o NL
    /\ <<"y">> \in DOMAIN env
    /\ <<"t">> \notin DOMAIN env

\* the token lists the FOR or IF branch at p passes to self.parse: the range
\* line and the body, or the two bodies
SubCalls(toks, p) ==
    IF toks[p + 1].type = "FOR"
    THEN LET q == ScanTo(toks, p + 2, {"NEWLINE"})
             e == IF q < 0 THEN -1 ELSE ScanTo(toks, q + 1, {"END"})
         IN  (IF q < 0 THEN {} ELSE {Slice(toks, p + 2, q)})
                 \cup (IF e < 0 THEN {} ELSE {Slice(toks, q + 1, e)})
    ELSE IF toks[p + 1].type \in {"IF", "IFNOT"}
    THEN LET q == ScanTo(toks, p + 1, {"NEWLINE"})
             sc == IfScan(toks, q + 1, 1, 0, <<>>, <<>>)
         IN  IF q < 0 \/ sc.err # "none" THEN {} ELSE {sc.b0, sc.b1}
    ELSE {}

\* a pass of the loop at p that raises nothing leaves pos beyond p, in a loop
\* iteration or out of one
StepAdvances(toks, p, e) ==
    \A it \in {NoIter, Iter(0)} :
        LET s == Step(toks, p, <<>>, e, it, Unbound)
        IN  s.err = "none" => s.pos > p

\* at every offset of toks a pass advances and the lists passed to self.parse
\* are shorter than toks, and so on in them
RECURSIVE CallsShrink(_, _)
CallsShrink(toks, e) ==
    \A p \in 0..(Len(toks) - 1) :
        /\ StepAdvances(toks, p, e)
        /\ \A sub \in SubCalls(toks, p) : Len(sub) < Len(toks) /\ CallsShrink(sub, e)

\* what is left to do: the characters to read and then the tokens to walk,
\* at most one a character, while lexing; the tokens to walk while parsing,
\* where a define may leave pos one past the end; nothing once eval is over
Rank ==
    CASE pc = "lex" -> (Len(buf) - bpos) + Len(buf) + 3
      [] pc = "parse" -> (Len(tokens) - pos) + 2
      [] OTHER -> 0

\* C17: an evaluation ends, with a string returned or an exception raised:
\* every step lowers a rank that is never negative, every pass of the loop
\* moves pos on by at least one token, and every recursive call is given a
\* list shorter than the one walked, whose passes advance too; the loops run
\* within such passes.
C17_Terminates ==
    /\ [][Rank' < Rank]_vars
    /\ [][(pc = "parse" /\ pc' = "parse") => pos' > pos]_vars
    /\ [](Rank >= 0)
    /\ [](pc = "parse" => CallsShrink(tokens, env))

\* the longest loop has run all its iterations and eval has returned
C17_Witness ==
    /\ Done
    /\ buf = ForBuf(0, MaxN)
    /\ pos = Len(tokens)
    /\ Len(result) > MaxN

=============================================================================
